---- MODULE Spec2Model ----
(***************************************************************************)
(* AI Benchmark Explorer (src/app.py): one Streamlit session.              *)
(*                                                                         *)
(* Every user interaction re-executes main() from the top.  The state is   *)
(* the cached table, the value of every sidebar widget, the two keys of    *)
(* st.session_state, and what the last complete execution of main()        *)
(* computed and rendered.                                                  *)
(*                                                                         *)
(* Text is a sequence of one-character strings.  A missing CSV field (NaN) *)
(* is the empty sequence: pandas reads an empty field as NaN.  A year is   *)
(* <<>> when missing and <<y>> otherwise.                                  *)
(***************************************************************************)
EXTENDS Integers, Sequences, FiniteSets, TLC

VARIABLES
    df,                         \* load_data(): the cached, unfiltered table
    selected_task_with_count,   \* sidebar selectbox "Task"
    selected_area,              \* sidebar selectbox "Research Area"
    selected_modalities,        \* sidebar multiselect "Modalities"
    year_range,                 \* sidebar slider "Publication Year"
    search_term,                \* sidebar text input "Search Datasets"
    page_size,                  \* sidebar selectbox "Entries per page"
    current_page,               \* st.session_state.current_page
    selected_dataset_id,        \* st.session_state.selected_dataset_id
    filtered_df,                \* the last run's create_filter_panel(df)
    total_pages,                \* the last run's total_pages
    requested_page,             \* session current_page as the last run read it
    start_idx,                  \* the last run's start_idx
    end_idx,                    \* the last run's end_idx
    page_data,                  \* the last run's page_data
    selected_row,               \* the record handed to show_dataset_details
    error                       \* the exception that ended the last run

vars == <<df, selected_task_with_count, selected_area, selected_modalities,
          year_range, search_term, page_size, current_page,
          selected_dataset_id, filtered_df, total_pages, requested_page,
          start_idx, end_idx, page_data, selected_row, error>>

----------------------------------------------------------------------------
(* Bounds of the model                                                     *)

MedRows == 11      \* rows of the mid-sized table (two pages at 10 per page)
BigRows == 75      \* rows of the large table (eight pages at 10 per page)

----------------------------------------------------------------------------
(* Text helpers: Python str methods                                        *)

NaN == <<>>

notna(x) == x # NaN

Min(a, b) == IF a < b THEN a ELSE b

Max(a, b) == IF a > b THEN a ELSE b

\* s[a:b] of Python, 0-based half-open, for 0 <= a
Slice(s, a, b) == SubSeq(s, a + 1, Min(b, Len(s)))

\* s.find(sep) + 1 : position of the first occurrence of sep, 0 when absent
Find(s, sep) ==
    LET hits == {i \in 1..(Len(s) - Len(sep) + 1) :
                    SubSeq(s, i, i + Len(sep) - 1) = sep}
    IN  IF hits = {} THEN 0 ELSE CHOOSE i \in hits : \A j \in hits : i <= j

\* s.split(sep): the pieces between the occurrences of sep
RECURSIVE Split(_, _)
Split(s, sep) ==
    LET i == Find(s, sep)
    IN  IF i = 0 THEN <<s>>
        ELSE <<SubSeq(s, 1, i - 1)>> \o Split(SubSeq(s, i + Len(sep), Len(s)), sep)

\* s.strip(): leading and trailing blanks removed
RECURSIVE strip(_)
strip(s) ==
    IF s = <<>> THEN s
    ELSE IF Head(s) = " " THEN strip(Tail(s))
    ELSE IF s[Len(s)] = " " THEN strip(SubSeq(s, 1, Len(s) - 1))
    ELSE s

Elements(seq) == {seq[i] : i \in DOMAIN seq}

Digits == <<"0", "1", "2", "3", "4", "5", "6", "7", "8", "9">>

\* str(n) for n >= 0
RECURSIVE IntToStr(_)
IntToStr(n) ==
    IF n < 10 THEN <<Digits[n + 1]>>
    ELSE IntToStr(n \div 10) \o <<Digits[(n % 10) + 1]>>

\* re.IGNORECASE folding over the letters the tables and search terms use
lower(c) ==
    CASE c = "A" -> "a"
      [] c = "B" -> "b"
      [] OTHER   -> c

----------------------------------------------------------------------------
(* Tables the CSV file can hold                                            *)

All == <<"A", "l", "l">>

Row(id, task, area, mods, year) ==
    [dataset_id |-> id, task |-> task, area |-> area,
     modalities |-> mods, year_published |-> year]

\* "ab", task "Q", modalities "T, I" (a blank after the comma)
RowAb == Row(<<"a", "b">>, <<"Q">>, <<"N">>, <<"T", ",", " ", "I">>, <<2019>>)

\* "Ab", task "Q (x)", no area
RowCapAb == Row(<<"A", "b">>, <<"Q", " ", "(", "x", ")">>, NaN, <<"I">>, <<2020>>)

\* "b", no modalities, no year
RowB == Row(<<"b">>, <<"Q">>, <<"N">>, NaN, NaN)

SmallTable == <<RowAb, RowCapAb, RowB>>

\* the same file after the dataset "Ab" was renamed to "Bb"
RevisedTable == <<RowAb, [RowCapAb EXCEPT !.dataset_id = <<"B", "b">>], RowB>>

GenId(i) == <<"d">> \o IntToStr(i)

MedTable ==
    [i \in 1..MedRows |->
        Row(GenId(i), <<"Q">>, NaN, NaN, IF i = 1 THEN <<2019>> ELSE <<2020>>)]

\* 45 rows of task Q followed by rows of task R; years alternate
BigTable ==
    [i \in 1..BigRows |->
        Row(GenId(i), IF i <= 45 THEN <<"Q">> ELSE <<"R">>, NaN, NaN,
            <<2019 + (i % 2)>>)]

\* the files a session can start from
Sources == {SmallTable, RevisedTable, MedTable}

\* the edits of the file between two loads: a dataset renamed, and back
Revisions == {<<SmallTable, RevisedTable>>, <<RevisedTable, SmallTable>>}

\* what a user types in the search box
SearchTerms ==
    {<<"a">>, <<".">>, <<"(">>, <<"*">>, <<"a", "*">>}

----------------------------------------------------------------------------
(* create_filter_panel: the widgets' options                               *)

Rows(d) == Elements(d)

\* df['task'].value_counts(): each task with the number of its rows
task_counts(d) ==
    [t \in {r.task : r \in {x \in Rows(d) : notna(x.task)}} |->
        Cardinality({i \in DOMAIN d : d[i].task = t})]

\* f"{task} ({count})"
TaskLabel(task, count) == task \o <<" ", "(">> \o IntToStr(count) \o <<")">>

task_options(d) ==
    {TaskLabel(t, task_counts(d)[t]) : t \in DOMAIN task_counts(d)}

\* selected_task_with_count.split(' (')[0], or 'All'
selected_task(label) ==
    IF label # All THEN Split(label, <<" ", "(">>)[1] ELSE All

areas(d) == {All} \cup {r.area : r \in {x \in Rows(d) : notna(x.area)}}

\* the trimmed, non-empty tokens of a comma-separated field
Tokens(text) ==
    {strip(m) : m \in {x \in Elements(Split(text, <<",">>)) : strip(x) # <<>>}}

unique_modalities(d) ==
    UNION {Tokens(r.modalities) : r \in {x \in Rows(d) : notna(x.modalities)}}

years(d) == {r.year_published[1] : r \in {x \in Rows(d) : notna(x.year_published)}}

min_year(d) == CHOOSE y \in years(d) : \A z \in years(d) : y <= z

max_year(d) == CHOOSE y \in years(d) : \A z \in years(d) : y >= z

\* the ranges the slider can be dragged to
year_ranges(d) ==
    {r \in (min_year(d)..max_year(d)) \X (min_year(d)..max_year(d)) : r[1] <= r[2]}

----------------------------------------------------------------------------
(* create_filter_panel: the predicates                                     *)

\* filtered_df['task'] == selected_task, skipped for 'All'
TaskPass(row, task) == task = All \/ row.task = task

\* filtered_df['area'] == selected_area, skipped for 'All'
AreaPass(row, area) == area = All \/ row.area = area

\* any(mod.strip() in str(x).split(',') for mod in selected_modalities)
\*     if pd.notna(x) else False, skipped when nothing is selected
ModalityPass(x, mods) ==
    \/ mods = {}
    \/ IF notna(x)
       THEN \E mod \in mods : strip(mod) \in Elements(Split(x, <<",">>))
       ELSE FALSE

\* the year filter with the upper bound excluded (< for <=)
YearPassUpperExclusive(y, range) ==
    /\ notna(y)
    /\ y[1] >= range[1]
    /\ y[1] < range[2]

\* (year_published >= year_range[0]) & (year_published <= year_range[1]);
\* a comparison with NaN is False
YearPass(y, range) ==
    /\ notna(y)
    /\ y[1] >= range[1]
    /\ y[1] <= range[2]

\* re.compile(search_term) raises: an unclosed group, or a repeat with
\* nothing before it to repeat
re_error(pat) ==
    \E i \in DOMAIN pat :
        \/ pat[i] = "("
        \/ pat[i] = "*" /\ (i = 1 \/ pat[i - 1] = "*")

\* one pattern character against one text character, ignoring case
CharMatch(pc, c) == pc = "." \/ lower(pc) = lower(c)

\* the pattern from position i on matches the text starting at position j
RECURSIVE MatchHere(_, _, _, _)
MatchHere(pat, i, s, j) ==
    IF i > Len(pat) THEN TRUE
    ELSE IF i < Len(pat) /\ pat[i + 1] = "*"
    THEN \E k \in 0..(Len(s) - j + 1) :
            /\ \A m \in 0..(k - 1) : CharMatch(pat[i], s[j + m])
            /\ MatchHere(pat, i + 2, s, j + k)
    ELSE /\ j <= Len(s)
         /\ CharMatch(pat[i], s[j])
         /\ MatchHere(pat, i + 1, s, j + 1)

\* Series.str.contains(search_term, case=False): a regular-expression search
str_contains(s, pat) == \E j \in 1..(Len(s) + 1) : MatchHere(pat, 1, s, j)

\* skipped when the search box is empty
SearchPass(row, term) == term = <<>> \/ str_contains(row.dataset_id, term)

create_filter_panel(d, label, area, mods, range, term) ==
    LET by_task  == SelectSeq(d, LAMBDA r : TaskPass(r, selected_task(label)))
        by_area  == SelectSeq(by_task, LAMBDA r : AreaPass(r, area))
        by_mods  == SelectSeq(by_area, LAMBDA r : ModalityPass(r.modalities, mods))
        by_year  == SelectSeq(by_mods, LAMBDA r : YearPass(r.year_published, range))
    IN  SelectSeq(by_year, LAMBDA r : SearchPass(r, term))

----------------------------------------------------------------------------
(* main: pagination                                                        *)

page_size_options == {10, 20, 50, 100}

\* math.ceil(len(filtered_df) / page_size)
TotalPages(n, size) == (n + size - 1) \div size

\* the stored page used as it is, without the check against total_pages
ValidPageNoReset(page, pages) == page

\* if current_page > total_pages: current_page = 1
ValidPage(page, pages) == IF page > pages THEN 1 ELSE page

\* the start of the slice taken from a 0-based page number
StartIdxZeroBased(page, size) == page * size

\* (current_page - 1) * page_size
StartIdx(page, size) == (page - 1) * size

\* start_idx + page_size
EndIdx(start, size) == start + size

\* filtered_df.iloc[start:end]: a slice past the end is cut short
iloc(rows, start, end) == Slice(rows, start, end)

\* the entry '...' of displayed_pages
Ellipsis == 0

displayed_pages(current, pages) ==
    IF pages <= 7 THEN [i \in 1..pages |-> i]
    ELSE <<1>>
         \o (IF current > 3 THEN <<Ellipsis>> ELSE <<>>)
         \o [i \in 1..(Min(pages - 1, current + 1) - Max(2, current - 1) + 1) |->
                Max(2, current - 1) + i - 1]
         \o (IF current < pages - 2 THEN <<Ellipsis>> ELSE <<>>)
         \o (IF pages > 1 THEN <<pages>> ELSE <<>>)

\* the page numbers that get a button: one per column of page_cols
page_buttons(current, pages) ==
    {displayed_pages(current, pages)[i] :
        i \in 1..Min(Min(7, pages), Len(displayed_pages(current, pages)))}
        \ {Ellipsis}

----------------------------------------------------------------------------
(* main: one execution of the script                                       *)

\* df[df['dataset_id'] == selected_dataset_id]
Lookup(d, id) == SelectSeq(d, LAMBDA r : r.dataset_id = id)

\* lines 419-423: the detail of the selected dataset, from the unfiltered df
Detail(d, sel, view) ==
    IF sel = NaN
    THEN view
    ELSE IF Lookup(d, sel) = <<>>
    THEN \* .iloc[0] of an empty frame raises
         [view EXCEPT !.error = "IndexError"]
    ELSE [view EXCEPT !.selected_row = <<Lookup(d, sel)[1]>>]

\* lines 366-417: the page controls
Controls(d, sel, view) ==
    IF Min(7, view.total_pages) = 0
    THEN \* st.columns(0) raises
         [view EXCEPT !.error = "StreamlitAPIException"]
    ELSE Detail(d, sel, view)

\* lines 281-287: the slice of the current page
SlicePage(f, pages, page, cur, size) ==
    [filtered_df |-> f, total_pages |-> pages, requested_page |-> page,
     current_page |-> cur,
     start_idx |-> StartIdx(cur, size),
     end_idx |-> EndIdx(StartIdx(cur, size), size),
     page_data |-> iloc(f, StartIdx(cur, size), EndIdx(StartIdx(cur, size), size)),
     selected_row |-> <<>>, error |-> "none"]

\* lines 266-279: the page count and the check of the stored page
Paginate(f, size, page) ==
    SlicePage(f, TotalPages(Len(f), size), page,
              ValidPage(page, TotalPages(Len(f), size)), size)

main(d, label, area, mods, range, term, size, page, sel) ==
    IF term # <<>> /\ re_error(term)
    THEN \* line 178 raises before anything of the page is computed
         [filtered_df |-> <<>>, total_pages |-> 0, requested_page |-> page,
          current_page |-> page, start_idx |-> 0, end_idx |-> 0,
          page_data |-> <<>>, selected_row |-> <<>>, error |-> "re.error"]
    ELSE Controls(d, sel,
            Paginate(create_filter_panel(d, label, area, mods, range, term),
                     size, page))

\* one execution of main() with the given widget values and session keys
Rerun(d, label, area, mods, range, term, size, page, sel) ==
    \E run \in {main(d, label, area, mods, range, term, size, page, sel)} :
        /\ df' = d
        /\ selected_task_with_count' = label
        /\ selected_area' = area
        /\ selected_modalities' = mods
        /\ year_range' = range
        /\ search_term' = term
        /\ page_size' = size
        /\ selected_dataset_id' = sel
        /\ current_page' = run.current_page
        /\ filtered_df' = run.filtered_df
        /\ total_pages' = run.total_pages
        /\ requested_page' = run.requested_page
        /\ start_idx' = run.start_idx
        /\ end_idx' = run.end_idx
        /\ page_data' = run.page_data
        /\ selected_row' = run.selected_row
        /\ error' = run.error

----------------------------------------------------------------------------
(* The session                                                             *)

\* the first execution of main() over table d: every widget at its default
\* value, no key in st.session_state yet
FirstRun(d) ==
    \E run \in {main(d, All, All, {}, <<min_year(d), max_year(d)>>, <<>>, 20, 1, NaN)} :
        /\ df = d
        /\ selected_task_with_count = All
        /\ selected_area = All
        /\ selected_modalities = {}
        /\ year_range = <<min_year(d), max_year(d)>>
        /\ search_term = <<>>
        /\ page_size = 20
        /\ selected_dataset_id = NaN
        /\ current_page = run.current_page
        /\ filtered_df = run.filtered_df
        /\ total_pages = run.total_pages
        /\ requested_page = run.requested_page
        /\ start_idx = run.start_idx
        /\ end_idx = run.end_idx
        /\ page_data = run.page_data
        /\ selected_row = run.selected_row
        /\ error = run.error

Init == \E d \in Sources : FirstRun(d)

InitPage == FirstRun(BigTable)

\* the sidebar filter widgets are created before line 178 can raise; what
\* follows create_filter_panel is on the page only if it returned
PanelReturned == error # "re.error"

\* the page-number and Next buttons follow st.columns(min(7, total_pages))
ControlsRendered == error \notin {"re.error", "StreamlitAPIException"}

SetTask(label) ==
    /\ label \in {All} \cup task_options(df)
    /\ label # selected_task_with_count
    /\ Rerun(df, label, selected_area, selected_modalities, year_range,
             search_term, page_size, current_page, selected_dataset_id)

SetArea(area) ==
    /\ area \in areas(df)
    /\ area # selected_area
    /\ Rerun(df, selected_task_with_count, area, selected_modalities, year_range,
             search_term, page_size, current_page, selected_dataset_id)

SetModalities(mods) ==
    /\ mods \in SUBSET unique_modalities(df)
    /\ mods # selected_modalities
    /\ Rerun(df, selected_task_with_count, selected_area, mods, year_range,
             search_term, page_size, current_page, selected_dataset_id)

SetYearRange(range) ==
    /\ range \in year_ranges(df)
    /\ range # year_range
    /\ Rerun(df, selected_task_with_count, selected_area, selected_modalities,
             range, search_term, page_size, current_page, selected_dataset_id)

SetSearch(term) ==
    /\ term \in SearchTerms \cup {<<>>}
    /\ term # search_term
    /\ Rerun(df, selected_task_with_count, selected_area, selected_modalities,
             year_range, term, page_size, current_page, selected_dataset_id)

SetPageSize(size) ==
    /\ PanelReturned
    /\ size \in page_size_options
    /\ size # page_size
    /\ Rerun(df, selected_task_with_count, selected_area, selected_modalities,
             year_range, search_term, size, current_page, selected_dataset_id)

\* the button of row i of the page: selected_dataset_id = dataset_id, rerun
ClickRow(i) ==
    /\ PanelReturned
    /\ i \in DOMAIN page_data
    /\ Rerun(df, selected_task_with_count, selected_area, selected_modalities,
             year_range, search_term, page_size, current_page,
             page_data[i].dataset_id)

\* '<- Previous', disabled on page 1: current_page -= 1, rerun
ClickPrev ==
    /\ PanelReturned
    /\ current_page # 1
    /\ Rerun(df, selected_task_with_count, selected_area, selected_modalities,
             year_range, search_term, page_size, current_page - 1,
             selected_dataset_id)

\* a page-number button, disabled for the current page: current_page = page
ClickPage(page) ==
    /\ ControlsRendered
    /\ page \in page_buttons(current_page, total_pages)
    /\ page # current_page
    /\ Rerun(df, selected_task_with_count, selected_area, selected_modalities,
             year_range, search_term, page_size, page, selected_dataset_id)

\* 'Next ->', disabled on the last page: current_page += 1, rerun
ClickNext ==
    /\ ControlsRendered
    /\ current_page # total_pages
    /\ Rerun(df, selected_task_with_count, selected_area, selected_modalities,
             year_range, search_term, page_size, current_page + 1,
             selected_dataset_id)

\* The cache of load_data is cleared after the CSV file changed: the next run
\* reads table d.  A widget whose options are unchanged keeps its value; one
\* whose options changed is a new widget and starts from its default.
\* st.session_state keeps both of its keys.
Reload(d) ==
    /\ <<df, d>> \in Revisions
    /\ Rerun(d,
             IF task_options(d) = task_options(df)
                THEN selected_task_with_count ELSE All,
             IF areas(d) = areas(df) THEN selected_area ELSE All,
             IF unique_modalities(d) = unique_modalities(df)
                THEN selected_modalities ELSE {},
             IF <<min_year(d), max_year(d)>> = <<min_year(df), max_year(df)>>
                THEN year_range ELSE <<min_year(d), max_year(d)>>,
             search_term, page_size, current_page, selected_dataset_id)

Next ==
    \/ \E label \in {All} \cup task_options(df) : SetTask(label)
    \/ \E area \in areas(df) : SetArea(area)
    \/ \E mods \in SUBSET unique_modalities(df) : SetModalities(mods)
    \/ \E range \in year_ranges(df) : SetYearRange(range)
    \/ \E term \in SearchTerms \cup {<<>>} : SetSearch(term)
    \/ \E size \in page_size_options : SetPageSize(size)
    \/ \E i \in DOMAIN page_data : ClickRow(i)
    \/ ClickPrev
    \/ \E page \in 1..total_pages : ClickPage(page)
    \/ ClickNext
    \/ \E d \in Sources : Reload(d)

Spec == Init /\ [][Next]_vars

\* the paging of a large table: filter changes, page-size changes and the
\* page controls
NextPage ==
    \/ \E label \in {All} \cup task_options(df) : SetTask(label)
    \/ \E range \in year_ranges(df) : SetYearRange(range)
    \/ \E term \in SearchTerms \cup {<<>>} : SetSearch(term)
    \/ \E size \in page_size_options : SetPageSize(size)
    \/ ClickPrev
    \/ \E page \in 1..total_pages : ClickPage(page)
    \/ ClickNext

SpecPage == InitPage /\ [][NextPage]_vars

----------------------------------------------------------------------------
(* The filter claims                                                       *)

\* every widget of the filter panel at its default value
NoConstraints ==
    /\ selected_task_with_count = All
    /\ selected_area = All
    /\ selected_modalities = {}
    /\ year_range = <<min_year(df), max_year(df)>>
    /\ search_term = <<>>

\* C1: with no constraints (task and area 'All', no modality selected, the
\* year slider at its full default range, an empty search box) the filter
\* returns the input table unchanged in row set and order, also for tables
\* with rows whose year_published is missing.
C1_NoConstraintsIsIdentity ==
    (PanelReturned /\ NoConstraints) => filtered_df = df

\* the modality predicate as the claim states it: one of the record's trimmed
\* tokens equals one of the selected tags; no modality data never passes
TokenSelected(x, mods) == notna(x) /\ Tokens(x) \cap mods # {}

\* C2: with a non-empty selection of modality tags, a record passes the
\* modality predicate iff one of its trimmed comma-separated tokens equals a
\* selected tag, whatever the blanks around the commas; a record with no
\* modality data never passes.
C2_ModalityMatchesTrimmedTokens ==
    (PanelReturned /\ selected_modalities # {}) =>
        filtered_df =
            SelectSeq(df, LAMBDA r :
                /\ TaskPass(r, selected_task(selected_task_with_count))
                /\ AreaPass(r, selected_area)
                /\ TokenSelected(r.modalities, selected_modalities)
                /\ YearPass(r.year_published, year_range)
                /\ SearchPass(r, search_term))

\* the text contains the term as a literal substring, ignoring case
ContainsLiteral(s, term) ==
    \E j \in 1..(Len(s) - Len(term) + 1) :
        \A m \in 1..Len(term) : lower(s[j + m - 1]) = lower(term[m])

\* C8: with a non-empty search term the search keeps exactly the rows whose
\* dataset_id contains the term as a literal, case-insensitive substring, for
\* every term a user can type ('.', '(' and '*' included), and never fails.
C8_SearchIsLiteralSubstring ==
    search_term # <<>> =>
        /\ error # "re.error"
        /\ filtered_df =
            SelectSeq(df, LAMBDA r :
                /\ TaskPass(r, selected_task(selected_task_with_count))
                /\ AreaPass(r, selected_area)
                /\ ModalityPass(r.modalities, selected_modalities)
                /\ YearPass(r.year_published, year_range)
                /\ ContainsLiteral(r.dataset_id, search_term))

\* the rows the task, area, modality and search predicates let through
PassesAllButYear(r) ==
    /\ TaskPass(r, selected_task(selected_task_with_count))
    /\ AreaPass(r, selected_area)
    /\ ModalityPass(r.modalities, selected_modalities)
    /\ SearchPass(r, search_term)

Kept(r) == r \in Elements(filtered_df)

FullRange == year_range = <<min_year(df), max_year(df)>>

\* C9: the year range is inclusive at both ends: a record whose year equals
\* the lower or the upper bound (or lies between them) is kept, a record
\* whose year lies outside the range is dropped, and a record with a missing
\* year is dropped whenever the range is a strict subset of the full range.
C9_YearRangeInclusive ==
    PanelReturned =>
        \A r \in {x \in Rows(df) : PassesAllButYear(x)} :
            IF notna(r.year_published)
            THEN Kept(r) <=> /\ year_range[1] <= r.year_published[1]
                             /\ r.year_published[1] <= year_range[2]
            ELSE ~FullRange => ~Kept(r)

\* a narrowed range that keeps a row on its bound, drops a row outside it
\* and drops a row without a year
C9_Witness ==
    /\ PanelReturned
    /\ ~FullRange
    /\ \E r \in {x \in Rows(df) : PassesAllButYear(x)} :
            /\ notna(r.year_published)
            /\ r.year_published[1] \in {year_range[1], year_range[2]}
            /\ Kept(r)
    /\ \E r \in {x \in Rows(df) : PassesAllButYear(x)} :
            /\ notna(r.year_published)
            /\ r.year_published[1] > year_range[2]
            /\ ~Kept(r)
    /\ \E r \in {x \in Rows(df) : PassesAllButYear(x)} :
            /\ ~notna(r.year_published)
            /\ ~Kept(r)

\* C10: choosing the option 't (count)' of a task t of the table filters to
\* exactly the rows whose task is t: the name recovered from the label is t,
\* also when t itself contains the text ' ('.
C10_TaskLabelRecoversTask ==
    \A t \in DOMAIN task_counts(df) :
        (PanelReturned /\ selected_task_with_count = TaskLabel(t, task_counts(df)[t])) =>
            filtered_df =
                SelectSeq(df, LAMBDA r :
                    /\ r.task = t
                    /\ AreaPass(r, selected_area)
                    /\ ModalityPass(r.modalities, selected_modalities)
                    /\ YearPass(r.year_published, year_range)
                    /\ SearchPass(r, search_term))

----------------------------------------------------------------------------
(* The pagination claims                                                   *)

\* C4: after any sequence of filter changes, page-size changes and clicks on
\* Previous, Next and the page numbers, the page used to slice and display
\* rows lies in 1..max(total_pages, 1), and a stored page above total_pages
\* is reset to page 1 before the slice is taken.
C4_PageInRange ==
    PanelReturned =>
        /\ 1 <= current_page
        /\ current_page <= Max(total_pages, 1)
        /\ requested_page > total_pages => current_page = 1
        /\ start_idx = (current_page - 1) * page_size

\* the filter or the page size shrank the result under the stored page
C4_Witness ==
    /\ PanelReturned
    /\ total_pages >= 1
    /\ requested_page > total_pages
    /\ current_page = 1
    /\ start_idx = 0

\* C5: with zero filtered rows, for every allowed page size and every stored
\* page, the visible slice is empty and the pagination step (page count, page
\* check, slice, page controls) completes without an error.
C5_EmptyResultPaginates ==
    (PanelReturned /\ Len(filtered_df) = 0) =>
        /\ page_data = <<>>
        /\ error # "StreamlitAPIException"

\* C6: the slice starts at (effective_page - 1) * page_size and ends at
\* min(start + page_size, total_rows): the page shows exactly the rows between
\* the two; 45 rows at 20 per page on page 3 give page 3, start 40, end 45.
C6_SliceBounds ==
    PanelReturned =>
        /\ start_idx = (current_page - 1) * page_size
        /\ start_idx + Len(page_data) =
                Min(start_idx + page_size, Len(filtered_df))
        /\ page_data =
                SubSeq(filtered_df, start_idx + 1,
                       Min(start_idx + page_size, Len(filtered_df)))
        /\ (Len(filtered_df) = 45 /\ page_size = 20 /\ requested_page = 3) =>
                /\ current_page = 3
                /\ start_idx = 40
                /\ start_idx + Len(page_data) = 45

\* 45 filtered rows, 20 per page, page 3: the last, short page
C6_Witness ==
    /\ PanelReturned
    /\ Len(filtered_df) = 45
    /\ page_size = 20
    /\ requested_page = 3
    /\ current_page = 3
    /\ start_idx = 40
    /\ Len(page_data) = 5

----------------------------------------------------------------------------
(* The selection claims                                                    *)

\* C3: a selected dataset_id that is not in the current unfiltered table is
\* treated as no selection: the detail step shows nothing and does not fail.
C3_StaleSelectionIgnored ==
    (selected_dataset_id # NaN /\ Lookup(df, selected_dataset_id) = <<>>) =>
        /\ error # "IndexError"
        /\ selected_row = <<>>

\* C7: once a dataset is selected, filter changes, page-size changes and page
\* navigation leave the selection alone, and the detail shown is the selected
\* dataset's full record from the unfiltered table, also when the active
\* filter excludes it from the visible rows.
C7_DetailOfSelectionShown ==
    (/\ PanelReturned
     /\ selected_dataset_id # NaN
     /\ Lookup(df, selected_dataset_id) # <<>>) =>
        selected_row = <<Lookup(df, selected_dataset_id)[1]>>

\* the half of C7 about the selection itself: only a click on a row (or none
\* at all) changes selected_dataset_id
C7_SelectionPersists ==
    [][selected_dataset_id' # selected_dataset_id =>
            \E i \in DOMAIN page_data :
                selected_dataset_id' = page_data[i].dataset_id]_vars

====
